---- MODULE Spec2Model ----
(***************************************************************************)
(* Model of src/tuckerlsb.py: LSB steganography over a PIL pixel grid.     *)
(*                                                                         *)
(* Conventions.  A Python str of '0'/'1' characters is a sequence over     *)
(* {0,1}; a text str is a sequence of character codes (ord values).  PIL's *)
(* image.size is <<width, height>> and pixels[x, y] is valid exactly for   *)
(* 0 <= x < width and 0 <= y < height; any other index raises IndexError.  *)
(* A pixel is the tuple <<c0, c1, c2>> of an RGB image.                    *)
(*                                                                         *)
(* One behaviour is one image on disk and the command-line runs applied to *)
(* it: hide_message once (optional), then reveal_message on the image as   *)
(* it then is.  Each loop iteration is one step.  The history variables    *)
(* orig (the grid hide loaded), visited (coordinates hide read), writes    *)
(* (coordinates hide wrote) and reads (coordinates reveal read) record     *)
(* what the loops did; no action reads them.                               *)
(***************************************************************************)
EXTENDS Integers, Sequences, FiniteSets

VARIABLES size, message, pixels, orig, hidden, pc, row, column,
          message_index, binary_message, result, error,
          visited, writes, reads

vars == <<size, message, pixels, orig, hidden, pc, row, column,
          message_index, binary_message, result, error,
          visited, writes, reads>>

\* ------------------------------------------------------------- bounds
MaxDim == 6
MaxLen == 2
\* Character codes the messages are drawn from: both ends of [0,255], the
\* two bytes whose bits spell the delimiter (0xFF 0xFE), 0x7F (with 0xFF
\* and 0x00 it spells the delimiter off a byte boundary), and the letters
\* of "Hi".
Chars == {0, 72, 105, 127, 254, 255}

\* ---------------------------------------------------------- constants
delimeter == <<1,1,1,1,1,1,1,1,1,1,1,1,1,1,1,0>>
FormatWidth == 8
ChunkLen == 8
StripLen == 16
ERROR == <<69, 82, 82, 79, 82>>

\* ------------------------------------------------------------ helpers
Min(a, b) == IF a < b THEN a ELSE b

RECURSIVE Bin(_)
\* format(n, 'b'): the binary digits of n, most significant first.
Bin(n) == IF n < 2 THEN <<n>> ELSE Bin(n \div 2) \o <<n % 2>>

RECURSIVE Zeros(_)
Zeros(k) == IF k <= 0 THEN <<>> ELSE <<0>> \o Zeros(k - 1)

\* Variant of Format08b without the zero padding (format(n, 'b')).
Format08bUnpadded(n) == Bin(n)

\* format(n, '08b'): zero-padded on the left to at least 8 digits; a value
\* above 255 keeps all its digits.
Format08b(n) == Zeros(FormatWidth - Len(Bin(n))) \o Bin(n)

RECURSIVE text_to_binary(_)
text_to_binary(m) ==
    IF m = <<>> THEN <<>>
    ELSE Format08b(Head(m)) \o text_to_binary(Tail(m))

RECURSIVE IntBase2(_)
\* int(byte, 2) of a non-empty digit string.
IntBase2(byte) ==
    IF Len(byte) = 1 THEN byte[1]
    ELSE 2 * IntBase2(SubSeq(byte, 1, Len(byte) - 1)) + byte[Len(byte)]

RECURSIVE binary_to_text_from(_, _)
\* The loop "for i in range(0, len(b), 8)": byte = b[i:i+8] is cut short
\* by the end of the string, exactly as a Python slice is.
binary_to_text_from(b, i) ==
    IF i >= Len(b) THEN <<>>
    ELSE <<IntBase2(SubSeq(b, i + 1, Min(i + ChunkLen, Len(b))))>>
         \o binary_to_text_from(b, i + ChunkLen)

\* Variant of binary_to_text that drops a final group of fewer than 8 bits.
binary_to_text_floor(b) ==
    binary_to_text_from(SubSeq(b, 1, ChunkLen * (Len(b) \div ChunkLen)), 0)

binary_to_text(b) == binary_to_text_from(b, 0)

\* Variant of EndsWith that accepts the suffix only at a byte boundary.
EndsWithAligned(s, suf) ==
    /\ Len(s) >= Len(suf)
    /\ Len(s) % 8 = 0
    /\ SubSeq(s, Len(s) - Len(suf) + 1, Len(s)) = suf

\* str.endswith
EndsWith(s, suf) ==
    /\ Len(s) >= Len(suf)
    /\ SubSeq(s, Len(s) - Len(suf) + 1, Len(s)) = suf

\* binary_message[:-16]
Strip(s) == SubSeq(s, 1, Len(s) - StripLen)

\* (pixel[0] & ~1) | bit
SetLsb(v, bit) == (v - (v % 2)) + bit

\* pixel[0] & 1
Lsb(v) == v % 2

Width == size[1]
Height == size[2]
Coords(w, h) == (0 .. w - 1) \X (0 .. h - 1)
InRange(xy) == xy \in Coords(Width, Height)

\* The coordinate hide reads at loop position (row, column): pixels[row, column]
HideReadAt(r, c) == <<r, c>>
\* The coordinate hide writes at loop position (row, column): pixels[column, row]
HideWriteAt(r, c) == <<c, r>>
\* The coordinate reveal reads at loop position (row, column): pixels[column, row]
RevealReadAt(r, c) == <<c, r>>

\* for row in range(size[0]): for column in range(size[1]): the loop
\* position after (r, c), and whether there is one.
HasNext(r, c) == c + 1 < Height \/ r + 1 < Width
NextRow(r, c) == IF c + 1 < Height THEN r ELSE r + 1
NextColumn(r, c) == IF c + 1 < Height THEN c + 1 ELSE 0

\* ------------------------------------------------------ initial images
Gradient(w, h) == [p \in Coords(w, h) |-> <<16 * p[1] + p[2], p[1], p[2]>>]
WhiteHole(w, h, hx) ==
    [p \in Coords(w, h) |->
        IF p = <<hx, h - 1>> THEN <<254, 255, 255>> ELSE <<255, 255, 255>>]
Images(w, h) == {Gradient(w, h)} \cup {WhiteHole(w, h, hx) : hx \in 0 .. w - 1}

RECURSIVE Messages(_)
Messages(n) ==
    IF n = 0 THEN {<<>>}
    ELSE Messages(n - 1)
         \cup {Append(m, c) : m \in {x \in Messages(n - 1) : Len(x) = n - 1},
                              c \in Chars}

Init ==
    /\ size \in (1 .. MaxDim) \X (1 .. MaxDim)
    /\ message \in Messages(MaxLen)
    /\ pixels \in Images(size[1], size[2])
    /\ orig = pixels
    /\ hidden = FALSE
    /\ pc = "idle"
    /\ row = 0
    /\ column = 0
    /\ message_index = 0
    /\ binary_message = <<>>
    /\ result = <<>>
    /\ error = "none"
    /\ visited = <<>>
    /\ writes = <<>>
    /\ reads = <<>>

\* ------------------------------------------------------- hide_message
HideOpen ==
    /\ pc = "idle"
    /\ ~hidden
    /\ binary_message' = text_to_binary(message) \o delimeter
    /\ message_index' = 0
    /\ row' = 0
    /\ column' = 0
    /\ orig' = pixels
    /\ visited' = <<>>
    /\ writes' = <<>>
    /\ pc' = "hide_loop"
    /\ UNCHANGED <<size, message, pixels, hidden, result, error, reads>>

HideWrite ==
    /\ pc = "hide_loop"
    /\ message_index < Len(binary_message)
    /\ InRange(HideWriteAt(row, column))
    /\ LET pixel == pixels[HideReadAt(row, column)]
           bit_to_write == binary_message[message_index + 1]
           written == [pixel EXCEPT ![1] = SetLsb(pixel[1], bit_to_write)]
       IN  pixels' = [pixels EXCEPT ![HideWriteAt(row, column)] = written]
    /\ message_index' = message_index + 1
    /\ visited' = Append(visited, HideReadAt(row, column))
    /\ writes' = Append(writes, HideWriteAt(row, column))
    /\ IF HasNext(row, column)
       THEN /\ row' = NextRow(row, column)
            /\ column' = NextColumn(row, column)
            /\ pc' = "hide_loop"
       ELSE /\ UNCHANGED <<row, column>>
            /\ pc' = "hide_save"
    /\ UNCHANGED <<size, message, orig, hidden, binary_message, result, error,
                   reads>>

HideIndexError ==
    /\ pc = "hide_loop"
    /\ message_index < Len(binary_message)
    /\ ~InRange(HideWriteAt(row, column))
    /\ visited' = Append(visited, HideReadAt(row, column))
    /\ error' = "IndexError"
    /\ pc' = "hide_raised"
    /\ UNCHANGED <<size, message, pixels, orig, hidden, row, column,
                   message_index, binary_message, result, writes, reads>>

HideBreak ==
    /\ pc = "hide_loop"
    /\ message_index >= Len(binary_message)
    /\ pc' = "hide_save"
    /\ UNCHANGED <<size, message, pixels, orig, hidden, row, column,
                   message_index, binary_message, result, error,
                   visited, writes, reads>>

HideSave ==
    /\ pc = "hide_save"
    /\ hidden' = TRUE
    /\ pc' = "idle"
    /\ UNCHANGED <<size, message, pixels, orig, row, column,
                   message_index, binary_message, result, error,
                   visited, writes, reads>>

\* ----------------------------------------------------- reveal_message
RevealOpen ==
    /\ pc = "idle"
    /\ binary_message' = <<>>
    /\ row' = 0
    /\ column' = 0
    /\ reads' = <<>>
    /\ pc' = "reveal_loop"
    /\ UNCHANGED <<size, message, pixels, orig, hidden, message_index,
                   result, error, visited, writes>>

RevealRead ==
    /\ pc = "reveal_loop"
    /\ InRange(RevealReadAt(row, column))
    /\ LET pixel == pixels[RevealReadAt(row, column)]
           least_significant_bit == Lsb(pixel[1])
           appended == Append(binary_message, least_significant_bit)
       IN  IF EndsWith(appended, delimeter)
           THEN /\ binary_message' = Strip(appended)
                /\ result' = binary_to_text(Strip(appended))
                /\ pc' = "returned"
                /\ UNCHANGED <<row, column>>
           ELSE /\ binary_message' = appended
                /\ UNCHANGED result
                /\ IF HasNext(row, column)
                   THEN /\ row' = NextRow(row, column)
                        /\ column' = NextColumn(row, column)
                        /\ pc' = "reveal_loop"
                   ELSE /\ UNCHANGED <<row, column>>
                        /\ pc' = "reveal_exhausted"
    /\ reads' = Append(reads, RevealReadAt(row, column))
    /\ UNCHANGED <<size, message, pixels, orig, hidden, message_index,
                   error, visited, writes>>

RevealIndexError ==
    /\ pc = "reveal_loop"
    /\ ~InRange(RevealReadAt(row, column))
    /\ error' = "IndexError"
    /\ pc' = "reveal_raised"
    /\ UNCHANGED <<size, message, pixels, orig, hidden, row, column,
                   message_index, binary_message, result, visited, writes,
                   reads>>

\* return "ERROR" after both loops ran to their end
RevealError ==
    /\ pc = "reveal_exhausted"
    /\ result' = ERROR
    /\ pc' = "returned_error"
    /\ UNCHANGED <<size, message, pixels, orig, hidden, row, column,
                   message_index, binary_message, error, visited, writes,
                   reads>>

Next ==
    \/ HideOpen
    \/ HideWrite
    \/ HideIndexError
    \/ HideBreak
    \/ HideSave
    \/ RevealOpen
    \/ RevealRead
    \/ RevealIndexError
    \/ RevealError

Spec == Init /\ [][Next]_vars

\* ==================================================================
\* Properties
\* ==================================================================
NumPixels == Width * Height
\* 8*len(message) + 16: the number of bits hide has to place
NeededBits == 8 * Len(message) + 16
HideEnded == pc \in {"hide_save", "hide_raised"} \/ hidden
\* Position of a coordinate in the scan order "first axis outer, second
\* axis inner": (0,0),(0,1),...,(0,H-1),(1,0),...
ScanPos(p) == p[1] * Height + p[2]
\* The coordinate reveal's loop reads at its k-th iteration (k from 0)
RevealCoord(k) == RevealReadAt(k \div Height, k % Height)
\* The bits reveal has read so far, in the order it read them
BitsRead == [k \in 1 .. Len(reads) |-> Lsb(pixels[reads[k]][1])]
\* The 16 bits of s that end at position k (1-based) are the sentinel
MatchAt(s, k) == k >= 16 /\ SubSeq(s, k - 15, k) = delimeter
\* The 16 pixels reveal's loop reaches at iterations k-15 .. k all exist
\* and their channel-0 LSBs spell the sentinel
GridSentinelEndsAt(k) ==
    /\ k >= 15
    /\ \A j \in 0 .. 15 :
          /\ InRange(RevealCoord(k - 15 + j))
          /\ Lsb(pixels[RevealCoord(k - 15 + j)][1]) = delimeter[j + 1]
GridHasSentinel == \E k \in 0 .. NumPixels - 1 : GridSentinelEndsAt(k)
Pow2(n) == IF n = 0 THEN 1 ELSE IF n = 1 THEN 2 ELSE IF n = 2 THEN 4
           ELSE IF n = 3 THEN 8 ELSE IF n = 4 THEN 16 ELSE IF n = 5 THEN 32
           ELSE IF n = 6 THEN 64 ELSE 128
\* Unsigned value of bits lo..hi (1-based, inclusive) of b, most
\* significant first
RECURSIVE Unsigned(_, _, _)
Unsigned(b, lo, hi) ==
    IF lo > hi THEN 0 ELSE b[lo] * Pow2(hi - lo) + Unsigned(b, lo + 1, hi)
Abs(n) == IF n < 0 THEN 0 - n ELSE n

\* C1: hide on a grid with at least 8*len(M)+16 pixels, then reveal on the
\* result, returns exactly M: neither run raises, reveal does not return
\* "ERROR", and the text it returns is M.
C1_Roundtrip ==
    NumPixels >= NeededBits =>
        /\ pc # "hide_raised"
        /\ hidden => pc \notin {"reveal_raised", "returned_error"}
        /\ (hidden /\ pc = "returned") => result = message

\* C2: after hide, every pixel has in every channel other than channel 0
\* the value the pixel at that coordinate had before hide.
C2_OtherChannelsKept ==
    hidden => \A p \in Coords(Width, Height) :
                 /\ pixels[p][2] = orig[p][2]
                 /\ pixels[p][3] = orig[p][3]

\* C3: on a grid with fewer pixels than 8*len(M)+16, hide raises no error,
\* visits every pixel once, ends with the bit cursor equal to the pixel
\* count and goes on to save.
C3_SilentExhaustion ==
    NumPixels < NeededBits =>
        /\ pc # "hide_raised"
        /\ (pc = "hide_save" \/ hidden) =>
              /\ message_index = NumPixels
              /\ Len(visited) = NumPixels
              /\ {visited[k] : k \in 1 .. Len(visited)} = Coords(Width, Height)

\* C4: when the grid's LSBs, in reveal's scan order, never end in the
\* sentinel, reveal walks the whole grid and returns "ERROR" without
\* raising; and it returns "ERROR" by that path only then.
C4_NoMessage ==
    /\ pc = "reveal_raised" => GridHasSentinel
    /\ pc = "returned_error" =>
          /\ ~GridHasSentinel
          /\ Len(reads) = NumPixels
          /\ result = ERROR
    /\ pc = "returned" => GridHasSentinel

\* C5: reveal stops at the earliest position at which the last 16 bits it
\* has read are the sentinel: it never reads a pixel past such a position,
\* and at that position it returns the decoding of exactly the bits before
\* the 16-bit window.
C5_FirstMatchWins ==
    LET s == BitsRead IN
    /\ \A k \in 1 .. Len(s) - 1 : ~MatchAt(s, k)
    /\ MatchAt(s, Len(s)) =>
          /\ pc = "returned"
          /\ result = binary_to_text(SubSeq(s, 1, Len(s) - 16))
    /\ pc = "returned" => MatchAt(s, Len(s))

\* C5 witness: reveal returned at the first sentinel window (bits 1..16 of
\* the hidden message 0xFF 0xFE) although the true terminator lies later.
C5_Witness ==
    /\ pc = "returned"
    /\ hidden
    /\ message = <<255, 254>>
    /\ Len(reads) = 16
    /\ result = <<>>
    /\ GridSentinelEndsAt(31)

\* C6: after hide on a grid with more than L = 8*len(M)+16 pixels, every
\* pixel whose scan position is L or more is unchanged in all channels,
\* and hide performed exactly L writes.
C6_BeyondCursorUntouched ==
    (hidden /\ NumPixels > NeededBits) =>
        /\ \A p \in Coords(Width, Height) :
              ScanPos(p) >= NeededBits => pixels[p] = orig[p]
        /\ Len(writes) = NeededBits

\* C7 (as claimed): decode returns floor(len/8) characters, the i-th being
\* the unsigned value of bits 8i..8i+7; a final partial group is dropped.
C7_FloorDecode ==
    pc = "returned" =>
        /\ Len(result) = Len(binary_message) \div 8
        /\ \A i \in 0 .. Len(result) - 1 :
              result[i + 1] = Unsigned(binary_message, 8 * i + 1, 8 * i + 8)

\* C7 (amended): decode returns ceil(len/8) characters; each full group of
\* 8 bits gives the character with that unsigned value, and a final group
\* of len mod 8 bits gives one more character, the unsigned value of those
\* bits.
C7_CeilDecode ==
    pc = "returned" =>
        LET b == binary_message
            n == Len(b)
        IN  /\ Len(result) = (n + 7) \div 8
            /\ \A i \in 0 .. (n \div 8) - 1 :
                  result[i + 1] = Unsigned(b, 8 * i + 1, 8 * i + 8)
            /\ n % 8 # 0 =>
                  result[Len(result)] = Unsigned(b, n - (n % 8) + 1, n)

\* C7 witness: reveal handed decode a string of one full group and a
\* partial one.
C7_Witness ==
    /\ pc = "returned"
    /\ Len(binary_message) > 8
    /\ Len(binary_message) % 8 # 0

\* C8: encode(M) is the concatenation of each character's 8-bit unsigned
\* form, so len(encode(M)) = 8*len(M), and decode(encode(M)) = M.
C8_CodecRoundtrip ==
    pc \in {"hide_loop", "hide_save"} =>
        LET b == SubSeq(binary_message, 1, Len(binary_message) - 16) IN
        /\ Len(b) = 8 * Len(message)
        /\ binary_message = b \o delimeter
        /\ \A i \in 1 .. Len(message) : \A j \in 1 .. 8 :
              b[8 * (i - 1) + j] = (message[i] \div Pow2(8 - j)) % 2
        /\ binary_to_text(b) = message

\* C8 witness: hide has encoded "Hi" as 0100100001101001.
C8_Witness ==
    /\ pc = "hide_loop"
    /\ message = <<72, 105>>
    /\ SubSeq(binary_message, 1, 16) = <<0,1,0,0,1,0,0,0,0,1,1,0,1,0,0,1>>

\* C9: for every k below min(8*len(M)+16, pixel count), hide stores bit k
\* at the coordinate from which reveal reads its k-th bit, and no two bits
\* are stored at the same coordinate.
C9_SymmetricPlacement ==
    HideEnded =>
        /\ \A k \in 0 .. Min(NeededBits, NumPixels) - 1 :
              /\ k < Len(writes)
              /\ writes[k + 1] = RevealCoord(k)
        /\ \A j, k \in 1 .. Len(writes) : writes[j] = writes[k] => j = k

\* C10: every step of hide writes the tuple back where it read it, so
\* after hide every channel-0 value is in [0,255], has its original upper
\* seven bits and is within 1 of the original value at that coordinate.
C10_OnlyLsbChanges ==
    hidden =>
        /\ \A k \in 1 .. Len(writes) : writes[k] = visited[k]
        /\ \A p \in Coords(Width, Height) :
              /\ pixels[p][1] \in 0 .. 255
              /\ pixels[p][1] \div 2 = orig[p][1] \div 2
              /\ Abs(pixels[p][1] - orig[p][1]) <= 1
====
